---- MODULE Spec2Model ----
(***************************************************************************)
(* ClassifyHub: the disk cache of GitHub API answers (github.Github) and   *)
(* the stale-lock recovery it relies on (utility.check_stale_lock), as a   *)
(* state machine of several operating-system processes sharing one cache   *)
(* directory of one repository.                                            *)
(*                                                                         *)
(* A lock is a lockfile.LockFile (LinkLockFile): the lock file <path>.lock *)
(* is a hard link to the unique file of the process holding it.  acquire   *)
(* links, release unlinks whatever lock file exists, break_lock unlinks    *)
(* it unconditionally.  lock[L] is the process the lock file links to.     *)
(* A timeout of acquire can fire whenever the lock file is linked to       *)
(* another process: the code bounds no download and no waiting queue.      *)
(***************************************************************************)
EXTENDS Integers, FiniteSets, Sequences, TLC

\* ---------------------------------------------------------------- bounds
NumProcs == 2
MaxDay == 1
MaxAge == 1
MaxItems == 3
MaxWorkers == 2
\* random.random() is one of 0/JitterSteps .. (JitterSteps-1)/JitterSteps
JitterSteps == 4
PipeCap == 1
\* The values of a class dict are multiples of 1/Grain.
Grain == 2
MaxKeys == 3
MaxPath == 2
MaxLen == 3

Procs == 1..NumProcs
None == 0
Days == 0..MaxDay
NoDay == -1
Keys == {"k1", "k2"}
Payloads == {"a", "b"}
NoData == "absent"
Corrupt == "corrupt"
Workers == 1..MaxWorkers
Items == 1..MaxItems
NoItem == 0
NothingLogged == [failed |-> 0, missing |-> FALSE]

\* utility.get_classes(), classifier.get_all_classifiers()
Classes == {"DEV", "HW", "EDU", "DOCS", "WEB", "DATA", "OTHER"}
Classifiers == {"FileClassifier", "ReadmeClassifier", "MetadataClassifier",
                "LanguageClassifier", "LanguageDetailsClassifier", "NameClassifier",
                "CommitMessageClassifier", "RepositoryStructureClassifier"}

\* The classifiers whose model is a fitted scikit-learn estimator with its version.
Fitted == Classifiers \ {"FileClassifier", "LanguageClassifier", "NameClassifier"}

\* utility.get_zero_class_dict()
ZeroClassDict == [c \in Classes |-> 0]

\* A mapping that gives the whole probability to class k.
AllTo(k) == [c \in Classes |-> IF c = k THEN 1 ELSE 0]

\* processor.learning has not been called.  pc: position of learning; queue:
\* queue_classifier; wpc, cur, exitcode: position, classifier and exit code of each
\* worker; taken, learned: how often a classifier was taken and learn returned.
NoLearning ==
    [pc |-> "idle", worker |-> 0, queue |-> << >>,
     wpc |-> [w \in Workers |-> "none"], cur |-> [w \in Workers |-> "none"],
     exitcode |-> [w \in Workers |-> 0], joined |-> 0, failed |-> 0,
     taken |-> [c \in Classifiers |-> 0], learned |-> [c \in Classifiers |-> 0]]

\* Python values a config is built from.  A scalar is an int or a str, s is its text
\* (the int 1 and the str "1" differ in t only).
Scalars == {[t |-> "int", s |-> x] : x \in {"1", "2"}}
           \cup {[t |-> "str", s |-> x] : x \in {"1", "a"}}

\* An element of a config: a scalar, or a list or tuple of one scalar (q).
Elems == {[t |-> c.t, s |-> c.s, q |-> << >>] : c \in Scalars}
         \cup {[t |-> k, s |-> "", q |-> <<c>>] : k \in {"list", "tuple"}, c \in Scalars}

\* dict(), the config of a new ModelStore and after clear().
EmptyDict == [t |-> "dict", keys |-> << >>, vals |-> << >>]

\* The configs: a dict with at most one entry, or a list or tuple of one element
\* ("it is possible to replace it with anything that can be serialised as an JSON").
Configs ==
    {EmptyDict}
    \cup {[t |-> "dict", keys |-> <<k>>, vals |-> <<e>>] : k \in Scalars, e \in Elems}
    \cup {[t |-> k, keys |-> << >>, vals |-> <<e>>] : k \in {"list", "tuple"}, e \in Elems}

\* No ModelStore of the name was constructed and no model file exists.  config: the
\* config of the object in use; file, json: the model file and its content; saved,
\* last: whether save() has run and the config it wrote; op: the last operation;
\* cleared: clear() has run since the last save(); lock: <model>_LOCK is free or
\* links to a dead process; log: what the last operation did to <model>_LOCK.
NoModelStore ==
    [config |-> EmptyDict, file |-> FALSE, json |-> EmptyDict, saved |-> FALSE,
     last |-> EmptyDict, op |-> "none", cleared |-> FALSE, lock |-> "free",
     log |-> << >>]

\* check_stale_lock(lock_path, time=20): the default of time, in milliseconds.
DefaultTime == 20000

\* The values of time, in milliseconds.
Times == {DefaultTime \div 2, DefaultTime, 2 * DefaultTime}

\* No call of check_stale_lock is under way.  number_worker, cpu: the configured
\* number of workers and multiprocessing.cpu_count(); gate, probe: the timeouts of
\* the acquisition of <path>_STALE and of <path>, in milliseconds.
NoStaleCheck ==
    [pc |-> "idle", time |-> 0, number_worker |-> 0, cpu |-> 0, worker |-> 0,
     jitter |-> 0, gate |-> 0, probe |-> 0]

\* utility.get_classes(), in the order of the list.
ClassList == <<"DEV", "HW", "EDU", "DOCS", "WEB", "DATA", "OTHER">>

\* No function is being called.
NoFunction == [f |-> "none", done |-> FALSE]

NoClassify == [name |-> "none", model |-> "none", get |-> "none",
               proba |-> ZeroClassDict, returned |-> FALSE, result |-> ZeroClassDict]

\* The lock paths of one cache directory.
MetaLock == "METADATA_LOCK"
DlLock(k) == k
Locks == {MetaLock} \cup {DlLock(k) : k \in Keys}

VARIABLES
    today,          \* datetime.date.today().toordinal()
    max_age,        \* configserver 'maximum_cache_age'
    force,          \* configserver 'force_cache_update'
    dataFile,       \* <data_key>: the cached payload, or NoData
    errFile,        \* <data_key>_ERROR_GITHUB exists
    metaFile,       \* METADATA: [exists, time]
    lock,           \* <path>.lock of every lock path: the holder, or None
    stale,          \* <path>_STALE.lock of every lock path
    alive,          \* the process has not terminated
    pc,             \* position of each process in _get_data
    key,            \* data_key of the running call
    lk,             \* lock_path of the running check_stale_lock
    cache_time,     \* Github._cache_time of the process's object
    data,           \* the payload of the answer r.json()
    pend,           \* what the with-block of dl_lock is leaving with
    last,           \* process 1: key and result of its previous call, begun today
    okToday,        \* a request for the data key was answered 200 today
    bpc,            \* position of the submitting process in processor.batch
    input,          \* batch: the submitted work items
    worker,         \* batch: the number of worker processes
    queue_input,    \* batch: the items not yet taken by a worker
    queue_output,   \* batch: the results in the pipe of the output queue
    wpc,            \* position of each worker process in _batch_worker
    work,           \* _batch_worker: the item the worker is classifying (data)
    obuf,           \* results a worker has put that its feeder thread has not written
    exitcode,       \* Process.exitcode of each worker process
    result,         \* batch: the results collected
    joined,         \* batch: how many processes the join loop has joined
    failed,         \* batch: the processes found with an exit code that is not 0
    logged,         \* batch: what was logged: [failed, missing]
    taken,          \* how often each item was taken from queue_input
    produced,       \* the results put on queue_output by the workers
    clf,            \* one classify call: classifier, model, outcome of the get, result
    lrn,            \* processor.learning: the run, its queue and its worker processes
    csl,            \* one call of check_stale_lock: its arguments and the timeouts it used
    fn,             \* one call of a function: its name, its arguments, its result
    ms              \* one ModelStore name: the object's config, the model file, history

batchVars == <<bpc, input, worker, queue_input, queue_output, wpc, work, obuf, exitcode,
               result, joined, failed, logged, taken, produced>>

cacheVars == <<today, max_age, force, dataFile, errFile, metaFile, lock, stale, alive,
               pc, key, lk, cache_time, data, pend, last, okToday>>

\* The state of the classifiers, of a learning run and of the model files.
toolVars == <<clf, lrn, ms, csl, fn>>

\* What a step of _get_data leaves alone, and what a step of batch leaves alone.
restVars == <<batchVars, toolVars>>
nonBatchVars == <<cacheVars, toolVars>>

vars == <<cacheVars, batchVars, toolVars>>

fsVars == <<dataFile, errFile, metaFile>>
cfgVars == <<today, max_age, force>>

Abs(x) == IF x < 0 THEN -x ELSE x

EmptyJournal == [k \in Keys |-> NoDay]

\* Process 1 has finished no call that began today.
NoCall == [key |-> "k1", res |-> "none"]

\* The date changed while the call of process 1 was running.
Midnight == [key |-> "k1", res |-> "midnight"]

\* What process 1 remembers of the call that ends with result r.
Remember(p, k, r) ==
    IF p # 1 THEN last
    ELSE IF last.res = "midnight" THEN NoCall
    ELSE [key |-> k, res |-> r]

\* ---------------------------------------------------------------- Init
\* An empty cache directory, the configuration read, no call running.
InitCache ==
    /\ today = 0
    /\ max_age \in 1..MaxAge
    /\ force \in BOOLEAN
    /\ dataFile = [k \in Keys |-> NoData]
    /\ errFile = [k \in Keys |-> FALSE]
    /\ metaFile = [exists |-> FALSE, time |-> EmptyJournal]
    /\ key = [p \in Procs |-> "k1"]
    /\ lk = [p \in Procs |-> MetaLock]
    /\ cache_time = [p \in Procs |-> EmptyJournal]
    /\ data = [p \in Procs |-> NoData]
    /\ pend = [p \in Procs |-> "none"]
    /\ last = NoCall
    /\ okToday = [k \in Keys |-> FALSE]

\* processor.batch has not been called.
BatchIdle ==
    /\ bpc = "idle"
    /\ input = << >>
    /\ worker = 0
    /\ queue_input = << >>
    /\ queue_output = << >>
    /\ wpc = [w \in Workers |-> "none"]
    /\ work = [w \in Workers |-> NoItem]
    /\ obuf = [w \in Workers |-> << >>]
    /\ exitcode = [w \in Workers |-> 0]
    /\ result = << >>
    /\ joined = 0
    /\ failed = {}
    /\ logged = NothingLogged
    /\ taken = [i \in Items |-> 0]
    /\ produced = {}

\* No classifier is in use.
ToolsIdle ==
    /\ clf = NoClassify
    /\ lrn = NoLearning
    /\ ms = NoModelStore
    /\ csl = NoStaleCheck
    /\ fn = NoFunction

\* Worker processes of one run (processor.batch): all alive, no lock file yet.
Init ==
    /\ InitCache
    /\ BatchIdle
    /\ ToolsIdle
    /\ lock = [l \in Locks |-> None]
    /\ stale = [l \in Locks |-> None]
    /\ alive = [p \in Procs |-> TRUE]
    /\ pc = [p \in Procs |-> "idle"]

\* One client, process 1, after processes that terminated and left any of their
\* lock files behind (test_check_stale_lock: create_stale_lock).
InitSolo ==
    /\ InitCache
    /\ BatchIdle
    /\ ToolsIdle
    /\ lock \in [Locks -> {None} \cup (Procs \ {1})]
    /\ stale \in [Locks -> {None} \cup (Procs \ {1})]
    /\ alive = [p \in Procs |-> p = 1]
    /\ pc = [p \in Procs |-> IF p = 1 THEN "idle" ELSE "dead"]

\* ---------------------------------------------------------------- locks
\* lockfile acquire succeeds: no lock file, or it already links to p (nlink = 2).
CanLink(f, l, p) == f[l] = None \/ f[l] = p

\* The lock file links to another process: acquire keeps waiting, or times out.
HeldByOther(f, l, p) == f[l] # None /\ f[l] # p

\* release() raises NotLocked: the lock file does not exist.
NotLocked(f, l) == f[l] = None

\* ---------------------------------------------------------------- _get_data
\* Github._get_data(data_key, get_url) is called: check_stale_lock(METADATA_LOCK).
Call(p, k) ==
    /\ alive[p] /\ pc[p] = "idle"
    /\ pc' = [pc EXCEPT ![p] = "gate"]
    /\ key' = [key EXCEPT ![p] = k]
    /\ lk' = [lk EXCEPT ![p] = MetaLock]
    /\ UNCHANGED <<restVars, cfgVars, fsVars, lock, stale, alive, cache_time, data, pend,
                   last, okToday>>

\* check_stale_lock: test_lock.acquire succeeds (or test_lock.i_am_locking()).
GateAcquire(p) ==
    /\ alive[p] /\ pc[p] = "gate"
    /\ CanLink(stale, lk[p], p)
    /\ stale' = [stale EXCEPT ![lk[p]] = p]
    /\ pc' = [pc EXCEPT ![p] = "probe"]
    /\ UNCHANGED <<restVars, cfgVars, fsVars, lock, alive, key, lk, cache_time, data, pend,
                   last, okToday>>

\* check_stale_lock: test_lock.acquire times out, test_lock.break_lock(), loop.
GateTimeout(p) ==
    /\ alive[p] /\ pc[p] = "gate"
    /\ HeldByOther(stale, lk[p], p)
    /\ stale' = [stale EXCEPT ![lk[p]] = None]
    /\ UNCHANGED <<restVars, cfgVars, fsVars, lock, alive, pc, key, lk, cache_time, data, pend,
                   last, okToday>>

\* check_stale_lock: lock.acquire(timeout=time) succeeds.
ProbeAcquire(p) ==
    /\ alive[p] /\ pc[p] = "probe"
    /\ CanLink(lock, lk[p], p)
    /\ lock' = [lock EXCEPT ![lk[p]] = p]
    /\ pc' = [pc EXCEPT ![p] = "probe_rel"]
    /\ UNCHANGED <<restVars, cfgVars, fsVars, stale, alive, key, lk, cache_time, data, pend,
                   last, okToday>>

\* Mutant: the probe times out and the lock is not broken.
ProbeTimeoutNoBreak(p) ==
    /\ alive[p] /\ pc[p] = "probe"
    /\ HeldByOther(lock, lk[p], p)
    /\ pc' = [pc EXCEPT ![p] = "gate_rel"]
    /\ UNCHANGED <<restVars, cfgVars, fsVars, lock, stale, alive, key, lk, cache_time, data, pend,
                   last, okToday>>

\* check_stale_lock: lock.acquire times out, lock.break_lock().
ProbeTimeout(p) ==
    /\ alive[p] /\ pc[p] = "probe"
    /\ HeldByOther(lock, lk[p], p)
    /\ lock' = [lock EXCEPT ![lk[p]] = None]
    /\ pc' = [pc EXCEPT ![p] = "gate_rel"]
    /\ UNCHANGED <<restVars, cfgVars, fsVars, stale, alive, key, lk, cache_time, data, pend,
                   last, okToday>>

\* check_stale_lock: lock.release() right after the probe's acquire.  NotLocked is
\* not caught there: it leaves check_stale_lock and _get_data, the gate still held.
ProbeRelease(p) ==
    /\ alive[p] /\ pc[p] = "probe_rel"
    /\ IF NotLocked(lock, lk[p])
       THEN /\ pc' = [pc EXCEPT ![p] = "idle"]
            /\ last' = Remember(p, key[p], "lock_error")
            /\ UNCHANGED lock
       ELSE /\ lock' = [lock EXCEPT ![lk[p]] = None]
            /\ pc' = [pc EXCEPT ![p] = "gate_rel"]
            /\ UNCHANGED last
    /\ UNCHANGED <<restVars, cfgVars, fsVars, stale, alive, key, lk, cache_time, data, pend, okToday>>

\* check_stale_lock: test_lock.release(), NotLocked swallowed; the caller goes on to
\* the next check_stale_lock, or to "with dl_lock".
GateRelease(p) ==
    /\ alive[p] /\ pc[p] = "gate_rel"
    /\ stale' = [stale EXCEPT ![lk[p]] = None]
    /\ IF lk[p] = MetaLock
       THEN /\ lk' = [lk EXCEPT ![p] = DlLock(key[p])]
            /\ pc' = [pc EXCEPT ![p] = "gate"]
       ELSE /\ pc' = [pc EXCEPT ![p] = "dl_acq"]
            /\ UNCHANGED lk
    /\ UNCHANGED <<restVars, cfgVars, fsVars, lock, alive, key, cache_time, data, pend,
                   last, okToday>>

\* "with dl_lock:": LockFile.__enter__ is acquire() with timeout None, which waits
\* until the link succeeds and never times out.
DlAcquire(p) ==
    /\ alive[p] /\ pc[p] = "dl_acq"
    /\ CanLink(lock, DlLock(key[p]), p)
    /\ lock' = [lock EXCEPT ![DlLock(key[p])] = p]
    /\ pc' = [pc EXCEPT ![p] = "rm_acq"]
    /\ UNCHANGED <<restVars, cfgVars, fsVars, stale, alive, key, lk, cache_time, data, pend,
                   last, okToday>>

\* The statement each acquisition of METADATA_LOCK leads to.
AfterAcquire(s) ==
    CASE s = "rm_acq" -> "rm_read"
      [] s = "err_acq" -> "err_write"
      [] s = "errsave_acq" -> "errsave_write"
      [] s = "ok_acq" -> "ok_write"
      [] s = "oksave_acq" -> "oksave_write"

MetaAcquirePcs == {"rm_acq", "err_acq", "errsave_acq", "ok_acq", "oksave_acq"}

\* "with lock:" / "with metadata_lock:" on METADATA_LOCK: acquire() without timeout.
MetaAcquire(p) ==
    /\ alive[p] /\ pc[p] \in MetaAcquirePcs
    /\ CanLink(lock, MetaLock, p)
    /\ lock' = [lock EXCEPT ![MetaLock] = p]
    /\ pc' = [pc EXCEPT ![p] = AfterAcquire(pc[p])]
    /\ UNCHANGED <<restVars, cfgVars, fsVars, stale, alive, key, lk, cache_time, data, pend,
                   last, okToday>>

\* The end of a with-block on METADATA_LOCK: release() unlinks the lock file.
MetaRelease(p) == lock' = [lock EXCEPT ![MetaLock] = None]

\* _read_metadata: load METADATA into _cache_time when the file exists, release.
\* NotLocked from the release leaves _test_cache_valid and the with-block of dl_lock.
ReadMetadata(p) ==
    /\ alive[p] /\ pc[p] = "rm_read"
    /\ cache_time' = [cache_time EXCEPT
                        ![p] = IF metaFile.exists THEN metaFile.time ELSE @]
    /\ IF NotLocked(lock, MetaLock)
       THEN /\ pend' = [pend EXCEPT ![p] = "lock_error"]
            /\ pc' = [pc EXCEPT ![p] = "dl_exit"]
            /\ UNCHANGED lock
       ELSE /\ MetaRelease(p)
            /\ pc' = [pc EXCEPT ![p] = "test"]
            /\ UNCHANGED pend
    /\ UNCHANGED <<restVars, cfgVars, fsVars, stale, alive, key, lk, data, last, okToday>>

\* Mutant: a data key without an entry in _cache_time has age 0.
AgeNoEntryFresh(p, k) ==
    IF cache_time[p][k] # NoDay THEN Abs(today - cache_time[p][k]) ELSE 0

\* _test_cache_valid, line 124: the age of data_key in _cache_time.
Age(p, k) ==
    IF cache_time[p][k] # NoDay THEN Abs(today - cache_time[p][k]) ELSE max_age + 1

\* Mutant: "<=" for "<" in the age test.
CacheValidAgeLe(p, k) ==
    /\ (dataFile[k] # NoData \/ errFile[k])
    /\ ~force
    /\ Age(p, k) <= max_age

\* Mutant: the force flag is not looked at.
CacheValidNoForce(p, k) ==
    /\ (dataFile[k] # NoData \/ errFile[k])
    /\ Age(p, k) < max_age

\* _test_cache_valid, lines 125-130: returnvalue.
CacheValid(p, k) ==
    /\ (dataFile[k] # NoData \/ errFile[k])
    /\ ~force
    /\ Age(p, k) < max_age

\* Mutant: a data file that does not parse ends the call with the exception.
TestCacheValidCorruptFails(p) ==
    /\ alive[p] /\ pc[p] = "test"
    /\ IF CacheValid(p, key[p])
       THEN IF errFile[key[p]]
            THEN /\ pend' = [pend EXCEPT ![p] = "cached_error"]
                 /\ pc' = [pc EXCEPT ![p] = "dl_exit"]
                 /\ UNCHANGED data
            ELSE IF dataFile[key[p]] = Corrupt
                 THEN /\ pend' = [pend EXCEPT ![p] = "parse_error"]
                      /\ pc' = [pc EXCEPT ![p] = "dl_exit"]
                      /\ UNCHANGED data
                 ELSE /\ data' = [data EXCEPT ![p] = dataFile[key[p]]]
                      /\ pend' = [pend EXCEPT ![p] = "hit"]
                      /\ pc' = [pc EXCEPT ![p] = "dl_exit"]
       ELSE /\ pc' = [pc EXCEPT ![p] = "upd"]
            /\ UNCHANGED <<data, pend>>
    /\ UNCHANGED <<restVars, cfgVars, fsVars, lock, stale, alive, key, lk, cache_time,
                   last, okToday>>

\* _get_data lines 152-164: the branch on _test_cache_valid, the cached error, the
\* load of the data file (a file that does not parse is logged and the call goes on
\* to "Update cache"); an entry that is not valid goes on to "Update cache".
TestCacheValid(p) ==
    /\ alive[p] /\ pc[p] = "test"
    /\ IF CacheValid(p, key[p])
       THEN IF errFile[key[p]]
            THEN /\ pend' = [pend EXCEPT ![p] = "cached_error"]
                 /\ pc' = [pc EXCEPT ![p] = "dl_exit"]
                 /\ UNCHANGED data
            ELSE IF dataFile[key[p]] = Corrupt
                 THEN /\ pc' = [pc EXCEPT ![p] = "upd"]
                      /\ UNCHANGED <<data, pend>>
                 ELSE /\ data' = [data EXCEPT ![p] = dataFile[key[p]]]
                      /\ pend' = [pend EXCEPT ![p] = "hit"]
                      /\ pc' = [pc EXCEPT ![p] = "dl_exit"]
       ELSE /\ pc' = [pc EXCEPT ![p] = "upd"]
            /\ UNCHANGED <<data, pend>>
    /\ UNCHANGED <<restVars, cfgVars, fsVars, lock, stale, alive, key, lk, cache_time,
                   last, okToday>>

\* _get_data lines 167-171: remove <data_key>_ERROR_GITHUB before the request.
RemoveErrorMarker(p) ==
    /\ alive[p] /\ pc[p] = "upd"
    /\ errFile' = [errFile EXCEPT ![key[p]] = FALSE]
    /\ pc' = [pc EXCEPT ![p] = "fetch"]
    /\ UNCHANGED <<restVars, cfgVars, dataFile, metaFile, lock, stale, alive, key, lk,
                   cache_time, data, pend, last, okToday>>

\* What requests.get can end in: an exception, an answer that is not 200 with the
\* rate-limit message, another answer that is not 200, or 200 with a payload.
Responses == {"conn_fail", "rate_limit", "remote_error"} \cup Payloads

\* Mutant: a rate-limit answer is handled like every other answer that is not 200.
AfterResponseNoRateLimit(r) ==
    CASE r = "conn_fail" -> "dl_exit"
      [] r \in {"remote_error", "rate_limit"} -> "err_acq"
      [] OTHER -> "ok_acq"

\* Where _get_data goes with the answer (lines 179-199).
AfterResponse(r) ==
    CASE r \in {"conn_fail", "rate_limit"} -> "dl_exit"
      [] r = "remote_error" -> "err_acq"
      [] OTHER -> "ok_acq"

\* _get_data lines 173-199: the request and the classification of its answer.
Fetch(p) ==
    /\ alive[p] /\ pc[p] = "fetch"
    /\ \E r \in Responses :
        /\ pc' = [pc EXCEPT ![p] = AfterResponse(r)]
        /\ pend' = [pend EXCEPT ![p] = IF r \in Payloads THEN @ ELSE r]
        /\ data' = [data EXCEPT ![p] = IF r \in Payloads THEN r ELSE @]
        /\ okToday' = [okToday EXCEPT ![key[p]] = IF r \in Payloads THEN TRUE ELSE @]
    /\ UNCHANGED <<restVars, cfgVars, fsVars, lock, stale, alive, key, lk, cache_time,
                   last>>

\* Mutant: the error marker is created and _cache_time is not stamped.
WriteErrorMarkerNoStamp(p) ==
    /\ alive[p] /\ pc[p] = "err_write"
    /\ errFile' = [errFile EXCEPT ![key[p]] = TRUE]
    /\ IF NotLocked(lock, MetaLock)
       THEN /\ pend' = [pend EXCEPT ![p] = "lock_error"]
            /\ pc' = [pc EXCEPT ![p] = "dl_exit"]
            /\ UNCHANGED lock
       ELSE /\ MetaRelease(p)
            /\ pc' = [pc EXCEPT ![p] = "errsave_acq"]
            /\ UNCHANGED pend
    /\ UNCHANGED <<restVars, cfgVars, dataFile, metaFile, stale, alive, key, lk, data,
                   cache_time, last, okToday>>

\* _get_data lines 192-195: create the error marker under METADATA_LOCK, then stamp
\* _cache_time.  NotLocked from the release leaves the with-block of dl_lock.
WriteErrorMarker(p) ==
    /\ alive[p] /\ pc[p] = "err_write"
    /\ errFile' = [errFile EXCEPT ![key[p]] = TRUE]
    /\ IF NotLocked(lock, MetaLock)
       THEN /\ pend' = [pend EXCEPT ![p] = "lock_error"]
            /\ pc' = [pc EXCEPT ![p] = "dl_exit"]
            /\ UNCHANGED <<lock, cache_time>>
       ELSE /\ MetaRelease(p)
            /\ cache_time' = [cache_time EXCEPT ![p][key[p]] = today]
            /\ pc' = [pc EXCEPT ![p] = "errsave_acq"]
            /\ UNCHANGED pend
    /\ UNCHANGED <<restVars, cfgVars, dataFile, metaFile, stale, alive, key, lk, data,
                   last, okToday>>

\* Mutant: the data file is written and _cache_time is not stamped.
WriteDataNoStamp(p) ==
    /\ alive[p] /\ pc[p] = "ok_write"
    /\ dataFile' = [dataFile EXCEPT ![key[p]] = data[p]]
    /\ IF NotLocked(lock, MetaLock)
       THEN /\ pend' = [pend EXCEPT ![p] = "ok"]
            /\ pc' = [pc EXCEPT ![p] = "dl_exit"]
            /\ UNCHANGED lock
       ELSE /\ MetaRelease(p)
            /\ pc' = [pc EXCEPT ![p] = "oksave_acq"]
            /\ UNCHANGED pend
    /\ UNCHANGED <<restVars, cfgVars, errFile, metaFile, stale, alive, key, lk, data,
                   cache_time, last, okToday>>

\* _get_data lines 202-205: write the data file and stamp _cache_time under
\* METADATA_LOCK.  The bare except of line 207 swallows NotLocked and skips the save.
WriteData(p) ==
    /\ alive[p] /\ pc[p] = "ok_write"
    /\ dataFile' = [dataFile EXCEPT ![key[p]] = data[p]]
    /\ cache_time' = [cache_time EXCEPT ![p][key[p]] = today]
    /\ IF NotLocked(lock, MetaLock)
       THEN /\ pend' = [pend EXCEPT ![p] = "ok"]
            /\ pc' = [pc EXCEPT ![p] = "dl_exit"]
            /\ UNCHANGED lock
       ELSE /\ MetaRelease(p)
            /\ pc' = [pc EXCEPT ![p] = "oksave_acq"]
            /\ UNCHANGED pend
    /\ UNCHANGED <<restVars, cfgVars, errFile, metaFile, stale, alive, key, lk, data,
                   last, okToday>>

\* _save_metadata: dump _cache_time over METADATA, release.  After an error answer
\* NotLocked propagates (line 196), after a payload line 207 swallows it.
SaveMetadata(p) ==
    /\ alive[p] /\ pc[p] \in {"errsave_write", "oksave_write"}
    /\ metaFile' = [exists |-> TRUE, time |-> cache_time[p]]
    /\ IF NotLocked(lock, MetaLock)
       THEN /\ pend' = [pend EXCEPT
                          ![p] = IF pc[p] = "errsave_write" THEN "lock_error" ELSE "ok"]
            /\ UNCHANGED lock
       ELSE /\ MetaRelease(p)
            /\ pend' = [pend EXCEPT
                          ![p] = IF pc[p] = "errsave_write" THEN "remote_error" ELSE "ok"]
    /\ pc' = [pc EXCEPT ![p] = "dl_exit"]
    /\ UNCHANGED <<restVars, cfgVars, dataFile, errFile, stale, alive, key, lk, cache_time,
                   data, last, okToday>>

\* What the caller of _get_data gets when the with-block is left with e: the payload,
\* or GithubError for an error answer (fresh or cached), or GithubError for a request
\* that got no cacheable answer, or NotLocked.
Returned(e, d) ==
    CASE e \in {"hit", "ok"} -> d
      [] e \in {"cached_error", "remote_error"} -> "definitive_error"
      [] e \in {"rate_limit", "conn_fail"} -> "transient_error"
      [] OTHER -> "lock_error"

\* Mutant: the with-block of dl_lock is left without release().
DlReleaseKeep(p) ==
    /\ alive[p] /\ pc[p] = "dl_exit"
    /\ last' = Remember(p, key[p], Returned(pend[p], data[p]))
    /\ pc' = [pc EXCEPT ![p] = "idle"]
    /\ data' = [data EXCEPT ![p] = NoData]
    /\ pend' = [pend EXCEPT ![p] = "none"]
    /\ UNCHANGED <<restVars, cfgVars, fsVars, lock, stale, alive, key, lk, cache_time,
                   okToday>>

\* The end of "with dl_lock:": release().  NotLocked raised by it replaces the value
\* or the GithubError the block was leaving with.
DlRelease(p) ==
    /\ alive[p] /\ pc[p] = "dl_exit"
    /\ IF NotLocked(lock, DlLock(key[p]))
       THEN /\ last' = Remember(p, key[p], "lock_error")
            /\ UNCHANGED lock
       ELSE /\ lock' = [lock EXCEPT ![DlLock(key[p])] = None]
            /\ last' = Remember(p, key[p], Returned(pend[p], data[p]))
    /\ pc' = [pc EXCEPT ![p] = "idle"]
    /\ data' = [data EXCEPT ![p] = NoData]
    /\ pend' = [pend EXCEPT ![p] = "none"]
    /\ UNCHANGED <<restVars, cfgVars, fsVars, stale, alive, key, lk, cache_time, okToday>>

\* ---------------------------------------------------------------- environment
\* A process terminates inside _get_data: its memory is gone, its lock files stay.
Die(p) ==
    /\ alive[p] /\ pc[p] # "idle"
    /\ alive' = [alive EXCEPT ![p] = FALSE]
    /\ pc' = [pc EXCEPT ![p] = "dead"]
    /\ key' = [key EXCEPT ![p] = "k1"]
    /\ lk' = [lk EXCEPT ![p] = MetaLock]
    /\ cache_time' = [cache_time EXCEPT ![p] = EmptyJournal]
    /\ data' = [data EXCEPT ![p] = NoData]
    /\ pend' = [pend EXCEPT ![p] = "none"]
    /\ last' = IF p = 1 THEN NoCall ELSE last
    /\ UNCHANGED <<restVars, cfgVars, fsVars, lock, stale, okToday>>

\* Midnight: date.today() advances.
NextDay ==
    /\ today < MaxDay
    /\ today' = today + 1
    /\ last' = IF pc[1] \in {"idle", "dead"} THEN NoCall ELSE Midnight
    /\ okToday' = [k \in Keys |-> FALSE]
    /\ UNCHANGED <<max_age, force, fsVars, lock, stale, alive, pc, key, lk, cache_time,
                   data, pend, restVars>>

\* One step of process p inside _get_data.
ProcStep(p) ==
    \/ GateAcquire(p) \/ GateTimeout(p) \/ ProbeAcquire(p) \/ ProbeTimeout(p)
    \/ ProbeRelease(p) \/ GateRelease(p) \/ DlAcquire(p) \/ MetaAcquire(p)
    \/ ReadMetadata(p) \/ TestCacheValid(p) \/ RemoveErrorMarker(p) \/ Fetch(p)
    \/ WriteErrorMarker(p) \/ WriteData(p) \/ SaveMetadata(p) \/ DlRelease(p)

\* Processes calling _get_data with data keys of K.
NextOn(K) ==
    \/ \E p \in Procs, k \in K : Call(p, k)
    \/ \E p \in Procs : ProcStep(p)
    \/ \E p \in Procs : Die(p)
    \/ NextDay

Next == NextOn(Keys)

\* Every process asks for the same data key.
NextSameKey == NextOn({"k1"})

\* Concurrent workers asking for the same data key of one repository.
Spec == Init /\ [][NextSameKey]_vars

\* One client calling _get_data for any data key, call after call.
SpecSolo == InitSolo /\ [][Next]_vars

\* The client is a running process: it keeps executing the statement it is at
\* (a waiting acquire of check_stale_lock ends after its timeout at the latest).
SpecSoloFair == SpecSolo /\ WF_vars(ProcStep(1))

\* The data key each process asks for when the processes work on different data of
\* one repository (each classifier of a learning run uses its own API data).
KeyOf(p) == IF p = 1 THEN "k1" ELSE "k2"

\* Live processes of one run, each calling _get_data for its own data key.
NextPerKey ==
    \/ \E p \in Procs : Call(p, KeyOf(p))
    \/ \E p \in Procs : ProcStep(p)

\* Concurrent workers asking for different data keys of one repository.
SpecPerKey == Init /\ [][NextPerKey]_vars

\* The content of an existing data file is damaged (a write that was cut short, a
\* fault of the disk): json.load will not parse it.
CorruptFile(k) ==
    /\ dataFile[k] \in Payloads
    /\ dataFile' = [dataFile EXCEPT ![k] = Corrupt]
    /\ UNCHANGED <<restVars, cfgVars, errFile, metaFile, lock, stale, alive, pc, key, lk,
                   cache_time, data, pend, last, okToday>>

NextCorrupt ==
    \/ Next
    \/ \E k \in Keys : CorruptFile(k)

\* One client and a cache directory whose data files can get damaged.
SpecCorrupt == InitSolo /\ [][NextCorrupt]_vars

\* ---------------------------------------------------------------- classifier
\* classify(data) of classifier c.  model: what its ModelStore holds ("unlearned": an
\* empty config, "other_version": fitted with another scikit-learn version,
\* "learned"); get: whether the get_* call of the Github object raises GithubError;
\* proba: what the model gives for the input (predict_proba, or the stored mapping).
Classify(c, model, get, proba) ==
    CASE c = "MetadataClassifier" ->
             \* lines 394-410 with _get_input, lines 369-386: on GithubError the
             \* input is ten zeros and the tree predicts from it
             IF model # "learned" THEN ZeroClassDict ELSE proba
      [] c \in Fitted \ {"MetadataClassifier"} ->
             IF model # "learned" THEN ZeroClassDict
             ELSE IF get = "error" THEN ZeroClassDict
             ELSE proba
      [] OTHER ->
             \* FileClassifier, LanguageClassifier, NameClassifier: no version
             IF get = "error" THEN ZeroClassDict
             ELSE IF model = "unlearned" THEN ZeroClassDict
             ELSE proba

\* The classify calls: every classifier, every state of its model, the get failing or
\* not.  predict_proba of a fitted estimator gives probabilities that sum to 1.
InitClassify ==
    /\ InitCache /\ max_age = 1 /\ ~force
    /\ lock = [l \in Locks |-> None]
    /\ stale = [l \in Locks |-> None]
    /\ alive = [p \in Procs |-> TRUE]
    /\ pc = [p \in Procs |-> "idle"]
    /\ BatchIdle
    /\ lrn = NoLearning
    /\ ms = NoModelStore
    /\ csl = NoStaleCheck
    /\ fn = NoFunction
    /\ \E c \in Classifiers, m \in {"unlearned", "other_version", "learned"},
          g \in {"error", "ok"}, k \in Classes, z \in BOOLEAN :
          /\ (c \in Fitted \/ m # "other_version")
          /\ (c \in Fitted => ~z)
          /\ clf = [name |-> c, model |-> m, get |-> g,
                    proba |-> IF z THEN ZeroClassDict ELSE AllTo(k),
                    returned |-> FALSE, result |-> ZeroClassDict]

\* classifier.classify(data) returns.
ClassifyCall ==
    /\ clf.name # "none" /\ ~clf.returned
    /\ clf' = [clf EXCEPT !.returned = TRUE,
                          !.result = Classify(clf.name, clf.model, clf.get, clf.proba)]
    /\ UNCHANGED <<cacheVars, batchVars, lrn, ms, csl, fn>>

SpecClassify == InitClassify /\ [][ClassifyCall]_vars

\* ---------------------------------------------------------------- processor.batch
\* multiprocessing.Queue: put() appends to a buffer of the putting process, whose
\* feeder thread writes it to the pipe of the queue while the pipe has room; a process
\* ends only after its feeder thread has written the whole buffer.  get(True, 1)
\* takes the first element written to the pipe, and raises queue.Empty when none is
\* there for a second.
Seq1(n) == [i \in 1..n |-> i]

\* The worker processes batch has created.
Started == 1..worker

\* batch, lines 160-184: an empty input returns at once; otherwise the items are put
\* on queue_input and `worker` processes are started.
BatchCall ==
    /\ bpc = "idle"
    /\ \E n \in 0..MaxItems, w \in Workers :
        /\ input' = Seq1(n)
        /\ IF n = 0
           THEN /\ bpc' = "done"
                /\ UNCHANGED <<worker, queue_input, wpc>>
           ELSE /\ bpc' = "drain"
                /\ worker' = w
                /\ queue_input' = Seq1(n)
                /\ wpc' = [v \in Workers |-> IF v <= w THEN "init" ELSE "none"]
    /\ UNCHANGED <<nonBatchVars, queue_output, work, obuf, exitcode, result, joined,
                   failed, logged, taken, produced>>

\* _batch_worker, line 40: get_all_classifiers() returns, or raises and ends the
\* process with exit code 1.
WorkerInit(w) ==
    /\ wpc[w] = "init"
    /\ \/ /\ wpc' = [wpc EXCEPT ![w] = "get"]
          /\ UNCHANGED exitcode
       \/ /\ wpc' = [wpc EXCEPT ![w] = "exiting"]
          /\ exitcode' = [exitcode EXCEPT ![w] = 1]
    /\ UNCHANGED <<nonBatchVars, bpc, input, worker, queue_input, queue_output, work, obuf,
                   result, joined, failed, logged, taken, produced>>

\* Mutant: queue.Empty is raised although an item is waiting on queue_input.
WorkerGetEarlyEmpty(w) ==
    /\ wpc[w] = "get"
    /\ \/ /\ queue_input # << >>
          /\ work' = [work EXCEPT ![w] = Head(queue_input)]
          /\ queue_input' = Tail(queue_input)
          /\ taken' = [taken EXCEPT ![Head(queue_input)] = @ + 1]
          /\ wpc' = [wpc EXCEPT ![w] = "classify"]
          /\ UNCHANGED exitcode
       \/ /\ wpc' = [wpc EXCEPT ![w] = "exiting"]
          /\ exitcode' = [exitcode EXCEPT ![w] = 0]
          /\ UNCHANGED <<work, queue_input, taken>>
    /\ UNCHANGED <<nonBatchVars, bpc, input, worker, queue_output, obuf, result, joined,
                   failed, logged, produced>>

\* _batch_worker, line 43 and 53-54: queue_input.get(True, 1) takes the next item, or
\* raises queue.Empty on the empty queue and the worker leaves with sys.exit(0).
WorkerGet(w) ==
    /\ wpc[w] = "get"
    /\ IF queue_input # << >>
       THEN /\ work' = [work EXCEPT ![w] = Head(queue_input)]
            /\ queue_input' = Tail(queue_input)
            /\ taken' = [taken EXCEPT ![Head(queue_input)] = @ + 1]
            /\ wpc' = [wpc EXCEPT ![w] = "classify"]
            /\ UNCHANGED exitcode
       ELSE /\ wpc' = [wpc EXCEPT ![w] = "exiting"]
            /\ exitcode' = [exitcode EXCEPT ![w] = 0]
            /\ UNCHANGED <<work, queue_input, taken>>
    /\ UNCHANGED <<nonBatchVars, bpc, input, worker, queue_output, obuf, result, joined,
                   failed, logged, produced>>

\* Mutant: the item of a failing classify call is put back on queue_input.
WorkerClassifyRequeue(w) ==
    /\ wpc[w] = "classify"
    /\ \/ /\ obuf' = [obuf EXCEPT ![w] = Append(@, work[w])]
          /\ produced' = produced \cup {work[w]}
          /\ wpc' = [wpc EXCEPT ![w] = "get"]
          /\ UNCHANGED <<exitcode, queue_input>>
       \/ /\ wpc' = [wpc EXCEPT ![w] = "exiting"]
          /\ exitcode' = [exitcode EXCEPT ![w] = 1]
          /\ queue_input' = Append(queue_input, work[w])
          /\ UNCHANGED <<obuf, produced>>
    /\ work' = [work EXCEPT ![w] = NoItem]
    /\ UNCHANGED <<nonBatchVars, bpc, input, worker, queue_output, result, joined,
                   failed, logged, taken>>

\* _batch_worker, lines 44-52: the classifiers return and the result is put on
\* queue_output, or a classify call raises and ends the process with exit code 1.
WorkerClassify(w) ==
    /\ wpc[w] = "classify"
    /\ \/ /\ obuf' = [obuf EXCEPT ![w] = Append(@, work[w])]
          /\ produced' = produced \cup {work[w]}
          /\ wpc' = [wpc EXCEPT ![w] = "get"]
          /\ UNCHANGED <<exitcode, queue_input>>
       \/ /\ wpc' = [wpc EXCEPT ![w] = "exiting"]
          /\ exitcode' = [exitcode EXCEPT ![w] = 1]
          /\ UNCHANGED <<obuf, produced, queue_input>>
    /\ work' = [work EXCEPT ![w] = NoItem]
    /\ UNCHANGED <<nonBatchVars, bpc, input, worker, queue_output, result, joined,
                   failed, logged, taken>>

\* The feeder thread of a worker writes its oldest buffered result to the pipe.
WorkerFlush(w) ==
    /\ wpc[w] \notin {"none", "exited"}
    /\ obuf[w] # << >>
    /\ Len(queue_output) < PipeCap
    /\ queue_output' = Append(queue_output, Head(obuf[w]))
    /\ obuf' = [obuf EXCEPT ![w] = Tail(@)]
    /\ UNCHANGED <<nonBatchVars, bpc, input, worker, queue_input, wpc, work, exitcode,
                   result, joined, failed, logged, taken, produced>>

\* The worker process ends: its feeder thread has been joined.
WorkerExit(w) ==
    /\ wpc[w] = "exiting"
    /\ obuf[w] = << >>
    /\ wpc' = [wpc EXCEPT ![w] = "exited"]
    /\ UNCHANGED <<nonBatchVars, bpc, input, worker, queue_input, queue_output, work, obuf,
                   exitcode, result, joined, failed, logged, taken, produced>>

\* batch, lines 190-191: queue_output.get(True, 1) returns a result.
DrainGet ==
    /\ bpc = "drain"
    /\ queue_output # << >>
    /\ result' = Append(result, Head(queue_output))
    /\ queue_output' = Tail(queue_output)
    /\ UNCHANGED <<nonBatchVars, bpc, input, worker, queue_input, wpc, work, obuf,
                   exitcode, joined, failed, logged, taken, produced>>

\* batch, lines 192-193: queue.Empty ends the inner loop.
DrainEmpty ==
    /\ bpc = "drain"
    /\ queue_output = << >>
    /\ bpc' = "check"
    /\ UNCHANGED <<nonBatchVars, input, worker, queue_input, queue_output, wpc, work, obuf,
                   exitcode, result, joined, failed, logged, taken, produced>>

\* Mutant: batch goes on to join after the first drain, whether or not a process
\* is alive.
CheckAliveNoLoop ==
    /\ bpc = "check"
    /\ bpc' = "join"
    /\ UNCHANGED <<nonBatchVars, input, worker, queue_input, queue_output, wpc, work, obuf,
                   exitcode, result, joined, failed, logged, taken, produced>>

\* batch, lines 195-199: drain again while a process is_alive(), else go on to join.
CheckAlive ==
    /\ bpc = "check"
    /\ bpc' = IF \E w \in Started : wpc[w] # "exited" THEN "drain" ELSE "join"
    /\ UNCHANGED <<nonBatchVars, input, worker, queue_input, queue_output, wpc, work, obuf,
                   exitcode, result, joined, failed, logged, taken, produced>>

\* Mutant: only a process ended by a signal counts as failed.
IsFailedSignal(code) == code < 0

\* batch, line 203: the exit code of a failed process.
IsFailed(code) == code # 0

\* batch, lines 201-207: join the next process and look at its exit code; after the
\* last one the number of failed processes is logged if there is one.
Join ==
    /\ bpc = "join"
    /\ wpc[joined + 1] = "exited"
    /\ joined' = joined + 1
    /\ failed' = IF IsFailed(exitcode[joined + 1]) THEN failed \cup {joined + 1}
                 ELSE failed
    /\ IF joined + 1 = worker
       THEN /\ bpc' = "final"
            /\ logged' = [logged EXCEPT !.failed = Cardinality(failed')]
       ELSE UNCHANGED <<bpc, logged>>
    /\ UNCHANGED <<nonBatchVars, input, worker, queue_input, queue_output, wpc, work, obuf,
                   exitcode, result, taken, produced>>

\* Mutant: no final drain pass, batch goes on to the reconciliation at once.
FinalGetNone ==
    /\ bpc = "final"
    /\ queue_output # << >>
    /\ logged' = [logged EXCEPT !.missing = Len(result) # Len(input)]
    /\ bpc' = "done"
    /\ UNCHANGED <<nonBatchVars, input, worker, queue_input, queue_output, wpc, work, obuf,
                   exitcode, result, joined, failed, taken, produced>>

\* batch, lines 210-212: the final drain pass takes a result.
FinalGet ==
    /\ bpc = "final"
    /\ queue_output # << >>
    /\ result' = Append(result, Head(queue_output))
    /\ queue_output' = Tail(queue_output)
    /\ UNCHANGED <<nonBatchVars, bpc, input, worker, queue_input, wpc, work, obuf,
                   exitcode, joined, failed, logged, taken, produced>>

\* Mutant: only a surplus of results counts as a mismatch.
MismatchSurplus(res, inp) == Len(res) > Len(inp)

\* batch, line 216: the number of results differs from the number of items.
Mismatch(res, inp) == Len(res) # Len(inp)

\* batch, lines 213-219: queue.Empty ends the final pass, a mismatch is logged, the
\* results are returned.
FinalEmpty ==
    /\ bpc = "final"
    /\ queue_output = << >>
    /\ logged' = [logged EXCEPT !.missing = Mismatch(result, input)]
    /\ bpc' = "done"
    /\ UNCHANGED <<nonBatchVars, input, worker, queue_input, queue_output, wpc, work, obuf,
                   exitcode, result, joined, failed, taken, produced>>

\* One step of worker process w.
WorkerStep(w) ==
    \/ WorkerInit(w) \/ WorkerGet(w) \/ WorkerClassify(w) \/ WorkerFlush(w)
    \/ WorkerExit(w)

\* One step of the process that called batch.
BatchStep ==
    \/ BatchCall \/ DrainGet \/ DrainEmpty \/ CheckAlive \/ Join \/ FinalGet
    \/ FinalEmpty

NextBatch ==
    \/ BatchStep
    \/ \E w \in Workers : WorkerStep(w)

\* No get is running: the configuration and the cache directory stay as they are.
InitBatch == Init /\ max_age = 1 /\ ~force

\* One call of processor.batch with its worker processes.
SpecBatch == InitBatch /\ [][NextBatch]_vars

\* The submitting process and every worker process keep running.
SpecBatchFair ==
    /\ SpecBatch
    /\ WF_vars(BatchStep)
    /\ \A w \in Workers : WF_vars(WorkerStep(w))

\* ---------------------------------------------------------------- processor.learning
\* get_all_classifiers(), in the order they are put on queue_classifier.
ClassifierList ==
    <<"FileClassifier", "ReadmeClassifier", "MetadataClassifier", "LanguageClassifier",
      "LanguageDetailsClassifier", "NameClassifier", "CommitMessageClassifier",
      "RepositoryStructureClassifier">>

\* learning, lines 229-246: the classifiers are put on queue_classifier and `worker`
\* processes are started.
LearningCall ==
    /\ lrn.pc = "idle"
    /\ \E n \in Workers :
        lrn' = [lrn EXCEPT !.pc = "join", !.worker = n, !.queue = ClassifierList,
                           !.wpc = [w \in Workers |-> IF w <= n THEN "get" ELSE "none"]]
    /\ UNCHANGED <<cacheVars, batchVars, clf, ms, csl, fn>>

\* Mutant: the worker reads the next classifier and leaves it on the queue.
LearnGetNoPop(w) ==
    /\ lrn.wpc[w] = "get"
    /\ IF lrn.queue # << >> /\ lrn.taken[Head(lrn.queue)] = 0
       THEN lrn' = [lrn EXCEPT !.wpc[w] = "learn", !.cur[w] = Head(lrn.queue)]
       ELSE IF lrn.queue # << >>
       THEN lrn' = [lrn EXCEPT !.wpc[w] = "learn", !.cur[w] = Head(lrn.queue),
                               !.queue = Tail(@), !.taken[Head(lrn.queue)] = @ + 1]
       ELSE lrn' = [lrn EXCEPT !.wpc[w] = "exited", !.exitcode[w] = 0]
    /\ UNCHANGED <<cacheVars, batchVars, clf, ms, csl, fn>>

\* ModelStore.__init__, lines 51-56: the path of the model file of a classifier,
\* model_path + '/' + name + '.model'.
ModelPath(name) == <<"model_path", "/", IF name = "" THEN "UNKNOWN" ELSE name, ".model">>

\* _learning_worker, lines 66 and 68-69: queue_classifier.get(True, 1) takes the next
\* classifier, or raises queue.Empty on the empty queue and the worker leaves with
\* sys.exit(0).
LearnGet(w) ==
    /\ lrn.wpc[w] = "get"
    /\ IF lrn.queue # << >>
       THEN lrn' = [lrn EXCEPT !.wpc[w] = "learn", !.cur[w] = Head(lrn.queue),
                               !.queue = Tail(@), !.taken[Head(lrn.queue)] = @ + 1]
       ELSE lrn' = [lrn EXCEPT !.wpc[w] = "exited", !.exitcode[w] = 0]
    /\ UNCHANGED <<cacheVars, batchVars, clf, ms, csl, fn>>

\* Mutant: the worker leaves after its first classifier.
LearnOnlyOne(w) ==
    /\ lrn.wpc[w] = "learn"
    /\ \/ lrn' = [lrn EXCEPT !.wpc[w] = "exited", !.exitcode[w] = 0, !.cur[w] = "none",
                             !.learned[lrn.cur[w]] = @ + 1]
       \/ lrn' = [lrn EXCEPT !.wpc[w] = "exited", !.cur[w] = "none", !.exitcode[w] = 1]
    /\ UNCHANGED <<cacheVars, batchVars, clf, ms, csl, fn>>

\* _learning_worker, line 67: c.learn(input) returns and the loop goes on, or it
\* raises and ends the process with exit code 1.
Learn(w) ==
    /\ lrn.wpc[w] = "learn"
    /\ \/ lrn' = [lrn EXCEPT !.wpc[w] = "get", !.cur[w] = "none",
                             !.learned[lrn.cur[w]] = @ + 1]
       \/ lrn' = [lrn EXCEPT !.wpc[w] = "exited", !.cur[w] = "none", !.exitcode[w] = 1]
    /\ UNCHANGED <<cacheVars, batchVars, clf, ms, csl, fn>>

\* learning, lines 248-254: join the next process and look at its exit code; after
\* the last one learning returns.
LearnJoin ==
    /\ lrn.pc = "join"
    /\ lrn.wpc[lrn.joined + 1] = "exited"
    /\ lrn' = [lrn EXCEPT !.joined = @ + 1,
                          !.failed = IF IsFailed(lrn.exitcode[lrn.joined + 1])
                                     THEN @ + 1 ELSE @,
                          !.pc = IF lrn.joined + 1 = lrn.worker THEN "done" ELSE @]
    /\ UNCHANGED <<cacheVars, batchVars, clf, ms, csl, fn>>

NextLearning ==
    \/ LearningCall
    \/ \E w \in Workers : LearnGet(w) \/ Learn(w)
    \/ LearnJoin

\* One call of processor.learning with its worker processes.
SpecLearning == InitBatch /\ [][NextLearning]_vars

\* ---------------------------------------------------------------- modelstore
\* json.dump of a scalar: an int is written as a number, a str as a string.
DumpScalar(c) == [t |-> IF c.t = "int" THEN "number" ELSE "string", s |-> c.s]

\* json.dump of an element: a list and a tuple are both written as an array.
DumpElem(e) ==
    IF e.t \in {"list", "tuple"}
    THEN [t |-> "array", s |-> "", q |-> [i \in DOMAIN e.q |-> DumpScalar(e.q[i])]]
    ELSE [t |-> DumpScalar(e).t, s |-> e.s, q |-> << >>]

\* json.dump(self.config, file): the keys of a dict are written as strings, an int
\* key by its decimal text.
Dump(c) ==
    [t |-> IF c.t = "dict" THEN "object" ELSE "array",
     keys |-> [i \in DOMAIN c.keys |-> [t |-> "string", s |-> c.keys[i].s]],
     vals |-> [i \in DOMAIN c.vals |-> DumpElem(c.vals[i])]]

\* json.load of a scalar: a number gives an int, a string a str.
LoadScalar(j) == [t |-> IF j.t = "number" THEN "int" ELSE "str", s |-> j.s]

\* json.load of an element: an array gives a list.
LoadElem(j) ==
    IF j.t = "array"
    THEN [t |-> "list", s |-> "", q |-> [i \in DOMAIN j.q |-> LoadScalar(j.q[i])]]
    ELSE [t |-> LoadScalar(j).t, s |-> j.s, q |-> << >>]

\* json.load(file): an object gives a dict with str keys, an array gives a list.
Load(j) ==
    [t |-> IF j.t = "object" THEN "dict" ELSE "list",
     keys |-> [i \in DOMAIN j.keys |-> LoadScalar(j.keys[i])],
     vals |-> [i \in DOMAIN j.vals |-> LoadElem(j.vals[i])]]

\* ModelStore.__init__, lines 41-66: an empty dict, replaced by the content of the
\* model file when the file exists.
ModelStoreNew ==
    /\ ms' = [ms EXCEPT !.config = IF ms.file THEN Load(ms.json) ELSE EmptyDict,
                        !.op = "new",
                        !.lock = IF ms.file THEN "free" ELSE ms.lock,
                        !.log = IF ms.file THEN <<"check", "acquire", "release">>
                                ELSE << >>]
    /\ UNCHANGED <<cacheVars, batchVars, clf, lrn, csl, fn>>

\* The classifier assigns the config of its ModelStore.
ModelStoreSet ==
    /\ ms.op # "none"
    /\ \E c \in Configs : ms' = [ms EXCEPT !.config = c, !.op = "set", !.log = << >>]
    /\ UNCHANGED <<cacheVars, batchVars, clf, lrn, csl, fn>>

\* A clear() that also writes the empty dict over the model file.
ModelStoreClearSaves ==
    /\ ms.op # "none"
    /\ ms' = [ms EXCEPT !.config = EmptyDict, !.op = "clear", !.cleared = TRUE,
                        !.file = TRUE, !.json = Dump(EmptyDict), !.log = << >>]
    /\ UNCHANGED <<cacheVars, batchVars, clf, lrn, csl, fn>>

\* ModelStore.clear, lines 72-73.
ModelStoreClear ==
    /\ ms.op # "none"
    /\ ms' = [ms EXCEPT !.config = EmptyDict, !.op = "clear", !.cleared = TRUE,
                        !.log = << >>]
    /\ UNCHANGED <<cacheVars, batchVars, clf, lrn, csl, fn>>

\* ModelStore.save, lines 77-91: "with lock" waits until <model>_LOCK is free, then
\* the config is dumped over the model file.
ModelStoreSave ==
    /\ ms.op # "none"
    /\ ms.lock = "free"
    /\ ms' = [ms EXCEPT !.file = TRUE, !.json = Dump(ms.config), !.saved = TRUE,
                        !.last = ms.config, !.op = "save", !.cleared = FALSE,
                        !.log = <<"acquire", "release">>]
    /\ UNCHANGED <<cacheVars, batchVars, clf, lrn, csl, fn>>

NextModelStore ==
    \/ ModelStoreNew \/ ModelStoreSet \/ ModelStoreClear \/ ModelStoreSave

\* The ModelStore objects of one name, used one after the other.
SpecModelStore == InitBatch /\ [][NextModelStore]_vars

\* A process of another run takes <model>_LOCK and is killed before it releases it.
ModelLockAbandoned ==
    /\ ms.lock = "free"
    /\ ms' = [ms EXCEPT !.lock = "dead"]
    /\ UNCHANGED <<cacheVars, batchVars, clf, lrn, csl, fn>>

NextModelLock ==
    \/ ModelStoreNew \/ ModelStoreSet \/ ModelStoreClear \/ ModelStoreSave
    \/ ModelLockAbandoned

\* The ModelStore objects of one name while other processes die holding the lock.
SpecModelLock == InitBatch /\ [][NextModelLock]_vars

\* ---------------------------------------------------------------- check_stale_lock
\* time + time / 5 * worker + (time / 2) * random.random(), line 110, with
\* random.random() = j / JitterSteps.
ScaledTimeout(time, w, j) ==
    time + (time \div 5) * w + ((time \div 2) * j) \div JitterSteps

\* check_stale_lock, lines 99-105: the arguments and the number of workers.
StaleCheckCall ==
    /\ csl.pc = "idle"
    /\ \E t \in Times, n \in 0..MaxWorkers, c \in Workers :
         csl' = [NoStaleCheck EXCEPT !.pc = "gate", !.time = t, !.number_worker = n,
                     !.cpu = c, !.worker = IF n > 0 THEN n ELSE c]
    /\ UNCHANGED <<cacheVars, batchVars, clf, lrn, ms, fn>>

\* Lines 106-115: test_lock.acquire with the scaled timeout.
StaleCheckGate ==
    /\ csl.pc = "gate"
    /\ \E j \in 0..(JitterSteps - 1) :
         csl' = [csl EXCEPT !.pc = "probe", !.jitter = j,
                     !.gate = ScaledTimeout(csl.time, csl.worker, j)]
    /\ UNCHANGED <<cacheVars, batchVars, clf, lrn, ms, fn>>

\* Lines 117-125: lock.acquire(timeout=time) while the gate is held.
StaleCheckProbe ==
    /\ csl.pc = "probe"
    /\ csl' = [csl EXCEPT !.pc = "release", !.probe = csl.time]
    /\ UNCHANGED <<cacheVars, batchVars, clf, lrn, ms, fn>>

\* Lines 127-131: test_lock.release() and return.
StaleCheckReturn ==
    /\ csl.pc = "release"
    /\ csl' = NoStaleCheck
    /\ UNCHANGED <<cacheVars, batchVars, clf, lrn, ms, fn>>

NextStaleCheck ==
    \/ StaleCheckCall \/ StaleCheckGate \/ StaleCheckProbe \/ StaleCheckReturn

\* The timeouts of one call of check_stale_lock after the other.
SpecStaleCheck == InitBatch /\ [][NextStaleCheck]_vars

\* ---------------------------------------------------------------- utility
\* The state around a call of a function: no get, no run and no model in use.
NothingElse ==
    /\ InitCache /\ max_age = 1 /\ ~force
    /\ lock = [l \in Locks |-> None]
    /\ stale = [l \in Locks |-> None]
    /\ alive = [p \in Procs |-> TRUE]
    /\ pc = [p \in Procs |-> "idle"]
    /\ BatchIdle
    /\ clf = NoClassify
    /\ lrn = NoLearning
    /\ ms = NoModelStore
    /\ csl = NoStaleCheck

\* The elements of a sequence.
Range(q) == {q[i] : i \in 1..Len(q)}

\* The sequences of n different elements of S.
Orders(S, n) ==
    {q \in [1..n -> S] : \A i, j \in 1..n : i # j => q[i] # q[j]}

\* The dicts given to get_best_class: keys is dict.keys() in iteration order, val the
\* value of each key in units of 1/one.
BestDicts ==
    {[keys |-> q, val |-> v, one |-> Grain] :
        q \in UNION {Orders({ClassList[i] : i \in 1..MaxKeys}, n) : n \in 1..MaxKeys},
        v \in [{ClassList[i] : i \in 1..MaxKeys} -> (-Grain - 1)..Grain]}

RECURSIVE BestLoop(_, _, _, _)
\* The loop of get_best_class before the key at position i, lines 83-86.
BestLoop(d, i, best, best_class) ==
    IF i > Len(d.keys) THEN best_class
    ELSE IF d.val[d.keys[i]] > best
         THEN BestLoop(d, i + 1, d.val[d.keys[i]], d.keys[i])
         ELSE BestLoop(d, i + 1, best, best_class)

RECURSIVE BestLoopGe(_, _, _, _)
\* Mutant: ">=" for ">" in the loop.
BestLoopGe(d, i, best, best_class) ==
    IF i > Len(d.keys) THEN best_class
    ELSE IF d.val[d.keys[i]] >= best
         THEN BestLoopGe(d, i + 1, d.val[d.keys[i]], d.keys[i])
         ELSE BestLoopGe(d, i + 1, best, best_class)

\* Mutant: the last key with the highest value wins.
get_best_class_last(d) == BestLoopGe(d, 1, -d.one, "")

\* utility.get_best_class(dict), lines 79-88: best = -1, best_class = ''.
get_best_class(d) == BestLoop(d, 1, -d.one, "")

InitBestClass ==
    /\ NothingElse
    /\ fn \in {[f |-> "get_best_class", d |-> d, out |-> "", done |-> FALSE] :
                 d \in BestDicts}

\* get_best_class(d) returns.
BestClassCall ==
    /\ fn.f = "get_best_class" /\ ~fn.done
    /\ fn' = [fn EXCEPT !.out = get_best_class(fn.d), !.done = TRUE]
    /\ UNCHANGED <<cacheVars, batchVars, clf, lrn, ms, csl>>

SpecBestClass == InitBestClass /\ [][BestClassCall]_vars

\* ---------------------------------------------------------------- _batch_worker
\* len(classifiers), line 50.
NumClassifiers == Len(ClassifierList)

\* The value 1 of a classifier's output: outputs and sums are in units of
\* 1/(Grain * NumClassifiers), so that result[key] / len(classifiers) is exact.
One == Grain * NumClassifiers

\* What c.classify(data) returns: the zero dict, all of the probability on one class,
\* or a dict from a model file that has one class only, with the value 1/Grain.
ClassifyResults ==
    {[c \in Classes |-> 0]}
    \cup {[c \in Classes |-> IF c = k THEN One ELSE 0] : k \in {"DEV", "HW"}}
    \cup {[c \in {"HW"} |-> NumClassifiers]}

RECURSIVE SumResultsNoTest(_, _)
\* Mutant: no "if key in result": a class that is missing from an output adds 1.
SumResultsNoTest(res, i) ==
    IF i = 0 THEN [cl \in Classes |-> 0]
    ELSE [cl \in Classes |->
            SumResultsNoTest(res, i - 1)[cl]
            + (IF cl \in DOMAIN res[i] THEN res[i][cl] ELSE One) \div NumClassifiers]

RECURSIVE SumResults(_, _)
\* sum_results after the classifiers 1..i, lines 44-50.
SumResults(res, i) ==
    IF i = 0 THEN [cl \in Classes |-> 0]
    ELSE [cl \in Classes |->
            SumResults(res, i - 1)[cl]
            + IF cl \in DOMAIN res[i] THEN res[i][cl] \div NumClassifiers ELSE 0]

\* The tuple put on queue_output for entity, line 51; res[i] is the output of the i-th
\* classifier.
BatchResult(entity, res) ==
    <<entity,
      get_best_class([keys |-> ClassList, val |-> SumResults(res, NumClassifiers),
                      one |-> One]),
      SumResults(res, NumClassifiers),
      [n \in Range(ClassifierList) |->
          res[CHOOSE i \in 1..NumClassifiers : ClassifierList[i] = n]]>>

InitBatchResult ==
    /\ NothingElse
    /\ fn \in {[f |-> "_batch_worker", data |-> 1, res |-> r, out |-> << >>,
                done |-> FALSE] : r \in [1..NumClassifiers -> ClassifyResults]}

\* One round of the loop of _batch_worker, lines 43-51.
BatchResultCall ==
    /\ fn.f = "_batch_worker" /\ ~fn.done
    /\ fn' = [fn EXCEPT !.out = BatchResult(fn.data, fn.res), !.done = TRUE]
    /\ UNCHANGED <<cacheVars, batchVars, clf, lrn, ms, csl>>

SpecBatchResult == InitBatchResult /\ [][BatchResultCall]_vars

\* ---------------------------------------------------------------- data keys
\* '__dir__' and '_SLASH_', the texts that replace '/' in a data key.
DIRTXT == <<"_", "_", "d", "i", "r", "_", "_">>
SLASHTXT == <<"_", "S", "L", "A", "S", "H", "_">>


\* Strings are sequences of characters.  The pieces a path or a branch name is put
\* together from: a letter, the separator, and the two texts the separator is
\* replaced with.
Pieces == {<<"a">>, <<"/">>, DIRTXT, SLASHTXT}

RECURSIVE Joined(_)
\* The concatenation of a sequence of strings.
Joined(q) == IF q = << >> THEN << >> ELSE Head(q) \o Joined(Tail(q))

\* The paths and branch names: up to MaxPath pieces.
PathStrings == {Joined(q) : q \in UNION {[1..n -> Pieces] : n \in 0..MaxPath}}

RECURSIVE Replace(_, _, _)
\* str.replace(old, new) for a one-character old.
Replace(str, old, new) ==
    IF str = << >> THEN << >>
    ELSE (IF Head(str) = old THEN new ELSE <<Head(str)>>) \o Replace(Tail(str), old, new)

\* The logical requests on one entity: the kind and its parameter.
Requests ==
    {[kind |-> k, arg |-> << >>] :
        k \in {"get_repository_data", "get_readme", "get_languages", "get_commits"}}
    \cup {[kind |-> "get_repository_content", arg |-> a] : a \in PathStrings}
    \cup {[kind |-> "get_tree", arg |-> a] : a \in PathStrings \ {<< >>}}

\* The data_key each request gives to _get_data (github.py 218, 239-240, 253-254, 286,
\* 328, 337).
DataKey(r) ==
    CASE r.kind = "get_repository_data" ->
             <<"r", "e", "p", "o", "s", "i", "t", "o", "r", "y", "_", "d", "a", "t", "a">>
      [] r.kind = "get_readme" -> <<"r", "e", "a", "d", "m", "e">>
      [] r.kind = "get_languages" -> <<"l", "a", "n", "g", "u", "a", "g", "e", "s">>
      [] r.kind = "get_commits" -> <<"c", "o", "m", "m", "i", "t", "s">>
      [] r.kind = "get_repository_content" ->
             Replace(<<"r", "e", "p", "o", "s", "i", "t", "o", "r", "y", "_">>
                     \o <<"c", "o", "n", "t", "e", "n", "t", "_">> \o r.arg, "/", DIRTXT)
      [] OTHER -> Replace(<<"t", "r", "e", "e", "_">> \o r.arg, "/", SLASHTXT)

InitDataKey ==
    /\ NothingElse
    /\ fn \in {[f |-> "data_key", a |-> a, b |-> b, key_a |-> << >>, key_b |-> << >>,
                done |-> FALSE] : a \in Requests, b \in Requests}

\* Two requests on one entity derive their data keys.
DataKeyCall ==
    /\ fn.f = "data_key" /\ ~fn.done
    /\ fn' = [fn EXCEPT !.key_a = DataKey(fn.a), !.key_b = DataKey(fn.b), !.done = TRUE]
    /\ UNCHANGED <<cacheVars, batchVars, clf, lrn, ms, csl>>

SpecDataKey == InitDataKey /\ [][DataKeyCall]_vars

\* ---------------------------------------------------------------- edit_distance
\* Characters: two of Latin-1, for which CPython keeps one str object each, and one
\* outside of it (U+20AC), for which every indexing of a string makes a new object.
Latin1 == {"a", "b"}
Chars == Latin1 \cup {"U+20AC"}

\* The strings of up to MaxLen characters.
Strings == UNION {[1..n -> Chars] : n \in 0..MaxLen}

\* "x is y" for two one-character strings taken from strings by indexing: the same
\* object for a character of Latin-1; for another character it is left to the
\* interpreter (fresh: every indexing gives a new object).
Is(x, y, fresh) == x = y /\ (x \in Latin1 \/ ~fresh)

\* min(x, y, z).
Min3(x, y, z) == IF x <= y /\ x <= z THEN x ELSE IF y <= z THEN y ELSE z

RECURSIVE Matrix(_, _, _, _, _)
\* matrix[i][j] of edit_distance with cost_ins = cost_del = cost_sub = 1, lines 141-152.
Matrix(target, source, i, j, fresh) ==
    IF i = 0 /\ j = 0 THEN 0
    ELSE IF j = 0 THEN Matrix(target, source, i - 1, 0, fresh) + 1
    ELSE IF i = 0 THEN Matrix(target, source, 0, j - 1, fresh) + 1
    ELSE Min3(Matrix(target, source, i - 1, j, fresh) + 1,
              Matrix(target, source, i - 1, j - 1, fresh)
                  + (IF Is(source[j], target[i], fresh) THEN 0 ELSE 1),
              Matrix(target, source, i, j - 1, fresh) + 1)

\* utility.edit_distance(target, source), lines 138-153: matrix[n][m].
edit_distance(target, source, fresh) ==
    Matrix(target, source, Len(target), Len(source), fresh)

InitEditDistance ==
    /\ NothingElse
    /\ fn \in {[f |-> "edit_distance", target |-> t, source |-> u, out |-> 0,
                done |-> FALSE] : t \in Strings, u \in Strings}

\* edit_distance(target, source) returns.
EditDistanceCall ==
    /\ fn.f = "edit_distance" /\ ~fn.done
    /\ \E fresh \in BOOLEAN :
         fn' = [fn EXCEPT !.out = edit_distance(fn.target, fn.source, fresh),
                          !.done = TRUE]
    /\ UNCHANGED <<cacheVars, batchVars, clf, lrn, ms, csl>>

SpecEditDistance == InitEditDistance /\ [][EditDistanceCall]_vars

\* ---------------------------------------------------------------- dir_to_learning
\* The lines of a class file: a blank line, a line that is no repository URL, the
\* URLs of two repositories, and a line whose bytes cannot be decoded (reading it
\* raises).
UrlLines == {"github.com/dev/repo1", "github.com/dev/repo2"}

\* os.path.exists is false for the file.
Missing == <<"missing">>

\* What the file of a class is: missing, empty, or one of three contents.
FileStates ==
    {Missing, << >>, <<"github.com/dev/repo1">>,
     <<"", "no url", "github.com/dev/repo2">>,
     <<"github.com/dev/repo1", "undecodable", "github.com/dev/repo2">>}

RECURSIVE ReadLines(_)
\* The loop of file_to_input over the lines, lines 85-94: blank lines and lines that
\* are no URL are skipped; an exception ends the loop with the data read so far.
ReadLines(lines) ==
    IF lines = << >> THEN << >>
    ELSE IF Head(lines) = "undecodable" THEN << >>
    ELSE IF Head(lines) \in UrlLines THEN <<Head(lines)>> \o ReadLines(Tail(lines))
    ELSE ReadLines(Tail(lines))

\* processor.file_to_input(path), lines 77-97.
file_to_input(file) == IF file = Missing THEN << >> ELSE ReadLines(file)

RECURSIVE Labelled(_, _, _)
\* The second loop of dir_to_learning from class i on, lines 137-141.
Labelled(files, classes, i) ==
    IF i > Len(classes) THEN << >>
    ELSE [k \in 1..Len(file_to_input(files[classes[i]])) |->
             <<file_to_input(files[classes[i]])[k], classes[i]>>]
         \o Labelled(files, classes, i + 1)

\* processor.dir_to_learning(path), lines 124-143.
dir_to_learning(isdir, files) ==
    IF ~isdir THEN << >>
    ELSE IF \E c \in Classes : files[c] = Missing THEN << >>
    ELSE Labelled(files, ClassList, 1)

InitDirToLearning ==
    /\ NothingElse
    /\ fn \in {[f |-> "dir_to_learning", isdir |-> d, files |-> x, out |-> << >>,
                done |-> FALSE] : d \in BOOLEAN, x \in [Classes -> FileStates]}

\* dir_to_learning(path) returns.
DirToLearningCall ==
    /\ fn.f = "dir_to_learning" /\ ~fn.done
    /\ fn' = [fn EXCEPT !.out = dir_to_learning(fn.isdir, fn.files), !.done = TRUE]
    /\ UNCHANGED <<cacheVars, batchVars, clf, lrn, ms, csl>>

SpecDirToLearning == InitDirToLearning /\ [][DirToLearningCall]_vars

\* ---------------------------------------------------------------- repository_exists
\* What the with-block of _get_data('repository_data', url) can be left with: a cache
\* hit, a 200 answer, a cached or a fresh error answer, a rate-limit answer, a failed
\* connection, NotLocked.
GetOutcomes ==
    {"hit", "ok", "cached_error", "remote_error", "rate_limit", "conn_fail", "lock_error"}

\* The outcomes with which _get_data raises GithubError (github.py 155-157, 179-197).
RaisesGithubError(e) == e \in {"cached_error", "remote_error", "rate_limit", "conn_fail"}

\* Deserialised JSON objects of the repository API: with or without a 'message'.
RepoPayloads ==
    {[name |-> n, fork |-> b] : n \in {"repo1", "repo2"}, b \in BOOLEAN}
    \cup {[message |-> m, name |-> n, fork |-> b] :
             m \in {"Not Found", "Moved Permanently", ""}, n \in {"repo1", "repo2"},
             b \in BOOLEAN}

\* Mutant: GithubError is not caught.
repository_exists_nocatch(e, payload) ==
    IF e = "lock_error" THEN "NotLocked"
    ELSE IF RaisesGithubError(e) THEN "GithubError"
    ELSE IF "message" \in DOMAIN payload /\ payload.message = "Not Found"
         THEN "False" ELSE "True"

\* Github.repository_exists(), lines 224-229: what it returns, or the exception it
\* ends with.
repository_exists(e, payload) ==
    IF e = "lock_error" THEN "NotLocked"
    ELSE IF RaisesGithubError(e) THEN "False"
    ELSE IF "message" \in DOMAIN payload /\ payload.message = "Not Found"
         THEN "False" ELSE "True"

InitRepositoryExists ==
    /\ NothingElse
    /\ fn \in {[f |-> "repository_exists", get |-> e, payload |-> d, out |-> "",
                done |-> FALSE] : e \in GetOutcomes, d \in RepoPayloads}

\* repository_exists() returns or raises; payload is what the API has for the entity.
RepositoryExistsCall ==
    /\ fn.f = "repository_exists" /\ ~fn.done
    /\ fn' = [fn EXCEPT !.out = repository_exists(fn.get, fn.payload), !.done = TRUE]
    /\ UNCHANGED <<cacheVars, batchVars, clf, lrn, ms, csl>>

SpecRepositoryExists == InitRepositoryExists /\ [][RepositoryExistsCall]_vars

\* ---------------------------------------------------------------- claims
\* The with-block of dl_lock is left with a result that came from a request.
FetchedResults == {"ok", "remote_error", "rate_limit", "conn_fail"}

\* The positions inside "with dl_lock:".
InCritical(p) == alive[p] /\ pc[p] \in (MetaAcquirePcs \cup
    {"rm_read", "test", "upd", "fetch", "err_write", "errsave_write", "ok_write",
     "oksave_write", "dl_exit"})

\* Process p answers its request: the step of Fetch.
Answered(p) == pc[p] = "fetch" /\ pc'[p] \in {"dl_exit", "err_acq", "ok_acq"}

\* Process p leaves _get_data through the end of the with-block.
Returns(p) == pc[p] = "dl_exit" /\ pc'[p] = "idle"

\* C1: live workers asking for the same data key, no forced refresh, maximum age > 0:
\* no request is made for a key for which a request was already answered 200 the same
\* day, i.e. at most one fetch per staleness window.
C1_OneFetchPerWindow ==
    [][\A p \in Procs :
         (Answered(p) /\ ~force /\ (\A q \in Procs : alive[q])) => ~okToday[key[p]]]_vars

\* C2: when a call of process 1 returns, and its previous call, begun the same day for
\* the same data key, returned a payload, and no refresh is forced, then this call made
\* no request and returns that same payload.
C2_TwiceSamePayload ==
    [][(Returns(1) /\ ~force /\ last.key = key[1] /\ last.res \in Payloads)
         => (pend[1] = "hit" /\ data[1] = last.res /\ last'.res = last.res)]_vars

\* C2 witness: the second call of the same key is about to return the cached payload.
C2_Witness ==
    /\ pc[1] = "dl_exit" /\ pend[1] = "hit" /\ ~force
    /\ last.key = key[1] /\ last.res = data[1]

\* C3: no two live processes are inside the with-block of the same <key>_GET_DATA_LOCK.
C3_MutualExclusion ==
    \A p, q \in Procs :
        (p # q /\ InCritical(p) /\ InCritical(q)) => key[p] # key[q]

\* C4: the data file and the error marker of a data key are never both present.
C4_NotBothFiles ==
    \A k \in Keys : ~(dataFile[k] # NoData /\ errFile[k])

\* C5: a client that starts check_stale_lock, whatever lock files terminated processes
\* left behind, gets through both checks and acquires the data lock right after.
C5_StaleLockRecovered ==
    (alive[1] /\ pc[1] = "gate") ~> (~alive[1] \/ (pc[1] = "rm_acq" /\ lock[DlLock(key[1])] = 1))

\* C5 witness: the probe of check_stale_lock faces the lock file of a terminated process.
C5_Witness ==
    /\ alive[1] /\ pc[1] = "probe" /\ stale[lk[1]] = 1
    /\ lock[lk[1]] \in Procs \ {1} /\ ~alive[lock[lk[1]]]

\* The lock path process p is acquiring with a with-statement.
WithLock(p) == IF pc[p] = "dl_acq" THEN DlLock(key[p]) ELSE MetaLock

\* C6: a live process waiting in the acquisition of a with-statement for a lock whose
\* holder terminated can take a step (time out, break the lock and proceed).
C6_BoundedAcquire ==
    \A p \in Procs :
        (/\ alive[p] /\ pc[p] \in ({"dl_acq"} \cup MetaAcquirePcs)
         /\ lock[WithLock(p)] \in Procs \ {p}
         /\ ~alive[lock[WithLock(p)]])
        => ENABLED ProcStep(p)

\* C7: after a call that ended in an error answer, the next call for the key the same day
\* raises GithubError from the cache without a request; a cached error is served only
\* while the recorded age is below the maximum age, otherwise the request is made again.
C7_CachedError ==
    [][/\ (Returns(1) /\ ~force /\ last.key = key[1] /\ last.res = "definitive_error")
            => (pend[1] = "cached_error" /\ last'.res = "definitive_error")
       /\ \A p \in Procs :
            (pc[p] = "test" /\ pc'[p] = "dl_exit" /\ pend'[p] = "cached_error")
            => (cache_time[p][key[p]] # NoDay /\ today - cache_time[p][key[p]] < max_age)
       /\ \A p \in Procs :
            (pc[p] = "test" /\ pc'[p] \in {"dl_exit", "upd"} /\ errFile[key[p]]
               /\ cache_time[p][key[p]] # NoDay
               /\ today - cache_time[p][key[p]] >= max_age)
            => pc'[p] = "upd"]_vars

\* C7 witness: the second call is about to raise the cached error.
C7_Witness ==
    /\ pc[1] = "dl_exit" /\ pend[1] = "cached_error" /\ ~force
    /\ last.key = key[1] /\ last.res = "definitive_error"

\* What a call is leaving with after a connectivity failure or a rate-limit answer.
TransientResults == {"conn_fail", "rate_limit"}

\* C8: from a connectivity failure or rate-limit answer until the call has returned,
\* nothing is written to the data file, the error marker or METADATA; the call fails;
\* and the next call for the key makes the request again.
C8_TransientNotCached ==
    [][/\ \A p \in Procs :
            (alive[p] /\ (pend[p] \in TransientResults \/ pend'[p] \in TransientResults))
            => (fsVars' = fsVars /\ pc'[p] \in {"dl_exit", "idle", "dead"})
       /\ (Returns(1) /\ pend[1] \in TransientResults /\ last.res # "midnight")
            => last'.res = "transient_error"
       /\ (Returns(1) /\ last.key = key[1] /\ last.res = "transient_error")
            => pend[1] \in FetchedResults]_vars

\* C8 witness: the call after a failed request has made the request again.
C8_Witness ==
    /\ pc[1] = "dl_exit" /\ pend[1] \in FetchedResults
    /\ last.key = key[1] /\ last.res = "transient_error"

\* C9: with force_cache_update set, no call leaves the with-block without having made
\* the request.
C9_ForceAlwaysFetches ==
    force => \A p \in Procs : (pc[p] = "dl_exit" => pend[p] \in FetchedResults)

\* C9 witness: forced, right after a call that fetched a payload, fetched again.
C9_Witness ==
    /\ force /\ pc[1] = "dl_exit" /\ pend[1] = "ok"
    /\ last.key = key[1] /\ last.res \in Payloads

\* C10: _test_cache_valid is true (the call goes on without a request) iff a data file or
\* error marker exists, force is off and the recorded age is below the maximum age.
C10_ValidIff ==
    [][\A p \in Procs :
         (pc[p] = "test" /\ pc'[p] \in {"dl_exit", "upd"})
         => ((pc'[p] = "dl_exit")
              <=> (/\ (dataFile[key[p]] # NoData \/ errFile[key[p]])
                   /\ ~force
                   /\ cache_time[p][key[p]] # NoDay
                   /\ today - cache_time[p][key[p]] < max_age))]_vars

\* C10 witness: an entry whose age equals the maximum age was found invalid.
C10_Witness ==
    /\ pc[1] = "upd" /\ ~force /\ dataFile[key[1]] # NoData
    /\ cache_time[1][key[1]] # NoDay /\ today - cache_time[1][key[1]] = max_age

\* C11: every existing data file or error marker of a data key has an entry for the
\* key in the persisted METADATA journal, in every state, also between the steps of a
\* get.
C11_JournalCovers ==
    \A k \in Keys :
        (dataFile[k] # NoData \/ errFile[k])
        => (metaFile.exists /\ metaFile.time[k] # NoDay)

\* C12: data keys are cached independently: an entry of the persisted METADATA journal
\* is still present after any step of a get, in particular after another process
\* asking for another key saves its journal.
C12_KeysIndependent ==
    [][\A k \in Keys :
         (metaFile.exists /\ metaFile.time[k] # NoDay) => metaFile'.time[k] # NoDay]_vars


\* C13: when batch returns and no worker process has failed, the returned list holds
\* exactly one result for each of the N submitted items, for every number of workers.
C13_AllResults ==
    (bpc = "done" /\ \A w \in Started : exitcode[w] = 0)
    => (Len(result) = Len(input) /\ Range(result) = Range(input))

\* C13 witness: batch has returned from three items and two workers, none failed.
C13_Witness ==
    /\ bpc = "done" /\ Len(input) = MaxItems /\ worker = 2 /\ Len(result) = MaxItems
    /\ \A w \in Started : exitcode[w] = 0

\* C14: when batch returns after worker processes ended with an exit code that is not
\* 0, it returns at most N results, and the failure count it logged is the number of
\* worker processes whose exit code is not 0.
C14_FailuresCounted ==
    bpc = "done"
    => /\ Len(result) <= Len(input)
       /\ logged.failed = Cardinality({w \in Started : exitcode[w] # 0})

\* C14 witness: batch has returned although a worker failed on an item, and logged it.
C14_Witness ==
    /\ bpc = "done" /\ logged.failed = 1 /\ Len(result) < Len(input)
    /\ \E w \in Started : exitcode[w] # 0

\* C15: batch always terminates: once the workers are started it returns, also when
\* workers crash and when a worker cannot end before its results are consumed; and it
\* is never in the join loop while a worker process is still running.
C15_BatchTerminates ==
    /\ (bpc = "drain") ~> (bpc = "done")
    /\ [](bpc = "join" => \A w \in Started : wpc[w] = "exited")

\* C15 witness: a worker has left its loop and cannot end, its result does not fit in
\* the full pipe of queue_output, while batch is between two drains.
C15_Witness ==
    /\ bpc = "check" /\ Len(queue_output) = PipeCap
    /\ \E w \in Started : wpc[w] = "exiting" /\ obuf[w] # << >>

\* C16: every submitted item is taken from queue_input at most once and gives at most
\* one element of the result list; an item that was taken is never on queue_input
\* again, and an item whose worker ended before putting its result is absent from the
\* returned list.
C16_AtMostOnce ==
    /\ \A i \in Items : taken[i] <= 1
    /\ \A i, j \in 1..Len(result) : i # j => result[i] # result[j]
    /\ \A i \in Items : taken[i] = 1 => i \notin Range(queue_input)
    /\ bpc = "done"
       => \A i \in Range(input) : (taken[i] = 1 /\ i \notin produced) => i \notin Range(result)

\* C16 witness: batch has returned, the worker of item 1 failed on it, another worker
\* went on taking items, and item 1 is not in the returned list.
C16_Witness ==
    /\ bpc = "done" /\ taken[1] = 1 /\ 1 \notin produced /\ 1 \notin Range(result)
    /\ worker = 2 /\ Len(result) = Len(input) - 1 /\ Len(result) > 0

\* C17: when batch returns, every result a worker has put on queue_output is in the
\* returned list exactly once, and nothing is left in the queue.
C17_NothingUncollected ==
    bpc = "done"
    => /\ \A i \in produced : Cardinality({j \in 1..Len(result) : result[j] = i}) = 1
       /\ queue_output = << >>
       /\ \A w \in Workers : obuf[w] = << >>

\* C17 witness: all workers are joined and a result that the drain loop did not see is
\* in the pipe for the final drain pass.
C17_Witness ==
    /\ bpc = "final" /\ queue_output # << >>
    /\ Head(queue_output) \in produced \ Range(result)

\* C18: batch has logged a reconciliation mismatch exactly when the number of results
\* it returns differs from the number of submitted items.
C18_MismatchLogged ==
    bpc = "done" => (logged.missing <=> Len(result) # Len(input))

\* C18 witness: batch has logged the mismatch and returned the results it collected.
C18_Witness ==
    /\ bpc = "done" /\ logged.missing
    /\ Len(result) > 0 /\ Len(result) < Len(input) /\ Range(result) = produced

\* Process p is in check_stale_lock between obtaining the <path>_STALE gate and
\* releasing it.
InGate(p) == alive[p] /\ pc[p] \in {"probe", "probe_rel", "gate_rel"}

\* C19: for a lock path, no two live processes are at the same time between obtaining
\* the <path>_STALE gate and releasing it.
C19_OneRecovery ==
    \A p, q \in Procs : (p # q /\ InGate(p) /\ InGate(q)) => lk[p] # lk[q]

\* The positions of check_stale_lock.
StaleCheckPcs == {"gate", "probe", "probe_rel", "gate_rel"}

\* C20: check_stale_lock never raises: a process leaves it only by returning to
\* _get_data, which goes on to the next check or to "with dl_lock", never by an
\* exception that ends the call.
C20_NeverRaises ==
    [][\A p \in Procs :
         (alive[p] /\ pc[p] \in StaleCheckPcs /\ alive'[p])
         => pc'[p] \in StaleCheckPcs \cup {"dl_acq"}]_vars

\* C21: _get_data ends only with a payload or with GithubError: no call of process 1
\* ends with an exception of the lock file library.
C21_OnlyGithubError == last.res # "lock_error"

\* C22: a live process that is not inside _get_data holds neither a <key>_GET_DATA_LOCK
\* nor METADATA_LOCK: every exit path has released them.
C22_LocksReleased ==
    \A p \in Procs : (alive[p] /\ pc[p] = "idle") => \A l \in Locks : lock[l] # p

\* C22 witness: process 1 is back from a call that ended with the GithubError of an
\* error answer while process 2 is inside the with-block of the same data key.
C22_Witness ==
    /\ alive[1] /\ pc[1] = "idle" /\ last.res = "definitive_error"
    /\ alive[2] /\ lock[DlLock(key[2])] = 2 /\ pc[2] = "fetch"

\* C23: once a get of process 1 has received a rate-limit answer, process 1 never
\* again reaches the request of a get: all later fetching of the run is cut short.
C23_RateLimitStopsFetching ==
    [](pend[1] = "rate_limit" => [](pc[1] # "fetch"))

\* C24: a data file that is valid by age and does not parse is a miss: the call goes
\* on to the request instead of failing, and a 200 answer overwrites the data file
\* with the fetched payload, which the call returns.
C24_CorruptIsMiss ==
    [][\A p \in Procs :
         /\ (/\ pc[p] = "test" /\ pc'[p] # "test" /\ alive'[p]
             /\ CacheValid(p, key[p]) /\ ~errFile[key[p]] /\ dataFile[key[p]] = Corrupt)
            => (pc'[p] = "upd" /\ pend'[p] = "none")
         /\ (pc[p] = "ok_write" /\ pc'[p] \in {"oksave_acq", "dl_exit"})
            => (data[p] \in Payloads /\ dataFile'[key[p]] = data[p])
         /\ (p = 1 /\ Returns(p) /\ pend[p] = "ok" /\ last.res # "midnight"
             /\ lock[DlLock(key[p])] # None)
            => last'.res = data[p]]_vars

\* C24 witness: the data file of a valid entry did not parse and the call has gone on
\* to "Update cache".
C24_Witness ==
    /\ alive[1] /\ pc[1] = "upd" /\ dataFile[key[1]] = Corrupt
    /\ CacheValid(1, key[1]) /\ ~errFile[key[1]]

\* C25: for every classifier, when the get that classify needs fails with GithubError,
\* classify returns the zero-filled mapping over the known classes.
C25_ZeroOnGithubError ==
    (clf.returned /\ clf.get = "error")
    => (DOMAIN clf.result = Classes /\ clf.result = ZeroClassDict)

\* C26: in a learning run every classifier is taken from queue_classifier at most once
\* and its learn returns at most once; when learning returns and no worker process has
\* failed, learn has returned exactly once for every classifier, for every number of
\* workers.
C26_LearnOnce ==
    /\ \A c \in Classifiers : lrn.taken[c] <= 1 /\ lrn.learned[c] <= lrn.taken[c]
    /\ (lrn.pc = "done" /\ \A w \in 1..lrn.worker : lrn.exitcode[w] = 0)
       => \A c \in Classifiers : lrn.learned[c] = 1

\* C26 witness: learning has returned, two workers shared the classifiers, none failed.
C26_Witness ==
    /\ lrn.pc = "done" /\ lrn.worker = 2 /\ lrn.failed = 0
    /\ \A c \in Classifiers : lrn.learned[c] = 1

\* C27: a ModelStore constructed after save() under the same name has a config equal
\* to the config that was saved.
C27_RoundTrip ==
    (ms.op = "new" /\ ms.saved) => ms.config = ms.last

\* C28: clear() sets the config of the object to an empty dict and leaves the model
\* file as it is; a ModelStore constructed after a clear(), before the next save(),
\* loads the config of the last save() as the model file holds it.
C28_ClearKeepsFile ==
    [][/\ ms'.op = "clear" =>
            /\ ms'.config = EmptyDict
            /\ ms'.file = ms.file /\ ms'.json = ms.json
       /\ (ms'.op = "new" /\ ms' # ms /\ ms.cleared /\ ms.saved) =>
            ms'.config = Load(Dump(ms.last))]_vars

C28_Witness ==
    /\ ms.op = "new" /\ ms.cleared /\ ms.saved
    /\ ms.last # EmptyDict
    /\ ms.config = Load(Dump(ms.last))

\* C29: the acquisition of <path> made while the _STALE gate is held has a timeout
\* longer than the base duration: the base duration plus a part that grows with the
\* number of workers plus a jitter below half the base duration.
C29_ProbeTimeoutScaled ==
    csl.pc = "release" =>
        /\ csl.probe > csl.time
        /\ \E j \in 0..(JitterSteps - 1) :
               csl.probe = ScaledTimeout(csl.time, csl.worker, j)

\* C30: when a live process leaves check_stale_lock for a lock path, by returning or
\* by an exception, it holds neither the lock of that path nor its _STALE gate.
C30_LeavesNothingHeld ==
    [][\A p \in Procs :
         (/\ alive[p] /\ alive'[p] /\ pc[p] \in StaleCheckPcs
          /\ (pc'[p] \notin StaleCheckPcs \/ lk'[p] # lk[p]))
         => (stale'[lk[p]] # p /\ lock'[lk[p]] # p)]_vars

\* C31: every acquisition of <model>_LOCK by the model store comes after a
\* check_stale_lock on that path within the same operation, in the constructor and
\* in save().
C31_CheckBeforeAcquire ==
    \A i \in DOMAIN ms.log :
        ms.log[i] = "acquire" => \E j \in 1..(i - 1) : ms.log[j] = "check"

C33_TransientKeepsMarker ==
    (/\ alive[1] /\ pc[1] = "dl_exit" /\ pend[1] \in TransientResults
     /\ last.key = key[1] /\ last.res = "definitive_error")
    => errFile[key[1]]

\* C34: for a dict with a value above -1, get_best_class returns a key of the dict
\* whose value is the highest of the dict, and every key before it in the iteration
\* order has a lower value.
C34_BestIsFirstMax ==
    (/\ fn.f = "get_best_class" /\ fn.done
     /\ \E i \in 1..Len(fn.d.keys) : fn.d.val[fn.d.keys[i]] > -Grain)
    => \E i \in 1..Len(fn.d.keys) :
          /\ fn.out = fn.d.keys[i]
          /\ \A j \in 1..Len(fn.d.keys) : fn.d.val[fn.d.keys[j]] <= fn.d.val[fn.out]
          /\ \A j \in 1..(i - 1) : fn.d.val[fn.d.keys[j]] < fn.d.val[fn.out]

\* C34 witness: the highest value is below 0 and above -1, two keys have it, a key
\* with a lower value comes first, and the first of the two is returned.
C34_Witness ==
    /\ fn.f = "get_best_class" /\ fn.done
    /\ Len(fn.d.keys) = 3
    /\ fn.d.val[fn.d.keys[1]] < -Grain
    /\ fn.d.val[fn.d.keys[2]] = -1 /\ fn.d.val[fn.d.keys[3]] = -1
    /\ fn.out = fn.d.keys[2]

RECURSIVE OutputSum(_, _, _)
\* The sum of the outputs of the classifiers 1..i for class c, a missing class as 0.
OutputSum(res, c, i) ==
    IF i = 0 THEN 0
    ELSE OutputSum(res, c, i - 1) + IF c \in DOMAIN res[i] THEN res[i][c] ELSE 0

C36_DistinctModelFiles ==
    \A v, w \in Workers :
        (v # w /\ lrn.wpc[v] = "learn" /\ lrn.wpc[w] = "learn")
        => ModelPath(lrn.cur[v]) # ModelPath(lrn.cur[w])

\* C36 witness: two workers are learning at the same time.
C36_Witness ==
    /\ lrn.wpc[1] = "learn" /\ lrn.wpc[2] = "learn"
    /\ lrn.cur[1] = "ReadmeClassifier" /\ lrn.cur[2] = "FileClassifier"

\* C37: two different requests on one entity never get the same data key.
C37_KeysInjective ==
    (fn.f = "data_key" /\ fn.done /\ fn.a # fn.b) => fn.key_a # fn.key_b

RECURSIVE Levenshtein(_, _)
\* The Levenshtein distance of two strings.
Levenshtein(t, u) ==
    IF t = << >> THEN Len(u)
    ELSE IF u = << >> THEN Len(t)
    ELSE IF Head(t) = Head(u) THEN Levenshtein(Tail(t), Tail(u))
    ELSE 1 + Min3(Levenshtein(Tail(t), u), Levenshtein(t, Tail(u)),
                  Levenshtein(Tail(t), Tail(u)))

\* C38: edit_distance with the default costs is the Levenshtein distance of the two
\* strings; it is 0 for equal strings.
C38_IsLevenshtein ==
    (fn.f = "edit_distance" /\ fn.done) =>
        /\ fn.out = Levenshtein(fn.target, fn.source)
        /\ fn.target = fn.source => fn.out = 0

\* The number of lines of a class file that are repository URLs.
UrlCount(file) == Cardinality({i \in 1..Len(file) : file[i] \in UrlLines})

\* C39: dir_to_learning returns the empty list when the path is no directory or a
\* class file is missing; otherwise it returns, for every class file, one pair with
\* the name of the file for each of its lines that is a repository URL.
C39_AllOrNothing ==
    (fn.f = "dir_to_learning" /\ fn.done) =>
        IF ~fn.isdir \/ \E c \in Classes : fn.files[c] = Missing
        THEN fn.out = << >>
        ELSE \A c \in Classes :
                Cardinality({i \in 1..Len(fn.out) : fn.out[i][2] = c})
                = UrlCount(fn.files[c])

\* C40: repository_exists never ends with GithubError; when the get raises
\* GithubError it returns false, and when the get returns a payload it returns true
\* exactly if the payload is not a 'Not Found' message.
C40_ExistsNeverRaises ==
    (fn.f = "repository_exists" /\ fn.done) =>
        /\ fn.out # "GithubError"
        /\ RaisesGithubError(fn.get) => fn.out = "False"
        /\ fn.get \in {"hit", "ok"} =>
              (fn.out = "True" <=>
                 ~("message" \in DOMAIN fn.payload /\ fn.payload.message = "Not Found"))
        /\ fn.get \in {"hit", "ok"} => fn.out \in {"True", "False"}

\* C40 witness: the get ended with the GithubError of a rate-limit answer and
\* repository_exists returned false.
C40_Witness ==
    fn.f = "repository_exists" /\ fn.done /\ fn.get = "rate_limit" /\ fn.out = "False"
====
